---- MODULE Spec2Model ----
(***************************************************************************)
(* Model of the watermark service: the /process handler of app/main.py and *)
(* add_watermark / get_font_size of app/services.py.                       *)
(*                                                                         *)
(* One request is followed from the content-type check to the response.    *)
(* What the imaging library decides (whether the bytes decode, the decoded *)
(* size, what reading the EXIF block yields or raises, the measured text   *)
(* box) is a nondeterministic choice taken at the step that consumes it.   *)
(***************************************************************************)
EXTENDS Integers, Sequences, FiniteSets, TLC

VARIABLES
    pc,              \* position of the request in process_image / add_watermark
    content_type,    \* file.content_type of the upload
    watermark,       \* the optional form field, as received
    response,        \* what /process answers: status code and kind
    watermark_text,  \* the text after default substitution
    decoded_size,    \* size of the image as Image.open decoded it
    exif,            \* what reading the EXIF block gave
    image_size,      \* original_image.size
    width, height,   \* width, height = original_image.size
    font_size,
    stroke_width,
    rotated_width, rotated_height,
    margin, spacing_x, spacing_y,
    layer_size,      \* watermark_layer.size
    x, y, row,       \* loop variables of the grid
    rows,            \* the y of every row the outer loop entered, in order
    placed,          \* every paste made, in order: [x, y, row]
    out_size         \* size of the image that was encoded

vars == <<pc, content_type, watermark, response, watermark_text, decoded_size,
          exif, image_size, width, height, font_size, stroke_width,
          rotated_width, rotated_height, margin, spacing_x, spacing_y,
          layer_size, x, y, row, rows, placed, out_size>>

(***************************************************************************)
(* Bounds of the model.                                                    *)
(***************************************************************************)
\* decoded image sizes tried: the first NumSizes entries of SizeList
NumSizes == 3
\* measured text boxes tried: the first NumBoxes entries of BoxList
NumBoxes == 3
\* longest watermark text tried by the text-resolution specification
MaxTextLen == 3
\* font-size inputs: every dimension within DimSpread of a boundary value
DimSpread == 1

(***************************************************************************)
(* Module constants of services.py.                                        *)
(***************************************************************************)
DEFAULT_WATERMARK_TEXT == <<"S", "a", "m", "p", "l", "e">>
SIZE_THRESHOLD == 1000
FIXED_FONT_SIZE == 72
RELATIVE_FONT_DIVISOR == 8
MIN_FONT_SIZE == 24
STROKE_WIDTH == 4
\* MARGIN_MULTIPLIER = 1.5, as the fraction 3 / 2
MARGIN_MULTIPLIER_NUM == 3
MARGIN_MULTIPLIER_DEN == 2
\* WATERMARK_ROTATION = -30 degrees: cos and sin of 30 degrees in thousandths
ROTATION_COS_MILLI == 866
ROTATION_SIN_MILLI == 500

Min(a, b) == IF a < b THEN a ELSE b
Max(a, b) == IF a > b THEN a ELSE b

(***************************************************************************)
(* Texts.  A str is a sequence of characters; Optional[str] is a record.   *)
(***************************************************************************)
Whitespace == {" ", "\n"}
Alphabet == Whitespace \cup {"a", "b"}
None == [present |-> FALSE, value |-> <<>>]
Some(s) == [present |-> TRUE, value |-> s]

Strings(n) == UNION {[1..k -> Alphabet] : k \in 0..n}

\* str.strip(): leading and trailing whitespace removed
RECURSIVE lstrip(_)
lstrip(s) == IF s # <<>> /\ Head(s) \in Whitespace THEN lstrip(Tail(s)) ELSE s
RECURSIVE rstrip(_)
rstrip(s) ==
    IF s # <<>> /\ s[Len(s)] \in Whitespace
    THEN rstrip(SubSeq(s, 1, Len(s) - 1))
    ELSE s
strip(s) == rstrip(lstrip(s))

\* add_watermark: if watermark_text is None or watermark_text.strip() == ""
ResolveTextNoneOnly(t) ==
    IF ~t.present THEN DEFAULT_WATERMARK_TEXT ELSE t.value
ResolveText(t) ==
    IF ~t.present \/ strip(t.value) = <<>>
    THEN DEFAULT_WATERMARK_TEXT
    ELSE t.value

(***************************************************************************)
(* get_font_size                                                           *)
(***************************************************************************)
get_font_size_inclusive(w, h) ==
    IF w >= SIZE_THRESHOLD /\ h >= SIZE_THRESHOLD
    THEN FIXED_FONT_SIZE
    ELSE Max(Min(w, h) \div RELATIVE_FONT_DIVISOR, MIN_FONT_SIZE)
get_font_size(w, h) ==
    IF w > SIZE_THRESHOLD /\ h > SIZE_THRESHOLD
    THEN FIXED_FONT_SIZE
    ELSE Max(Min(w, h) \div RELATIVE_FONT_DIVISOR, MIN_FONT_SIZE)

\* stroke_width = max(1, int(STROKE_WIDTH * font_size / FIXED_FONT_SIZE))
StrokeWidth(fs) == Max(1, (STROKE_WIDTH * fs) \div FIXED_FONT_SIZE)

\* margin = int(font_size * MARGIN_MULTIPLIER)
Margin(fs) == (fs * MARGIN_MULTIPLIER_NUM) \div MARGIN_MULTIPLIER_DEN

(***************************************************************************)
(* Image.rotate(angle, expand=True): the size of the result.               *)
(***************************************************************************)
CeilDiv(a, b) == -((-a) \div b)

\* a rotation by a multiple of 90 degrees: the size is kept or transposed
RotateSizeAlwaysSwap(size, angle) == <<size[2], size[1]>>
RotateSize(size, angle) ==
    IF angle = 180 THEN size ELSE <<size[2], size[1]>>

\* the rotation by WATERMARK_ROTATION about the centre: the corners of a
\* w x h canvas span w*cos + h*sin horizontally and w*sin + h*cos
\* vertically, and the new size is ceil(max) - floor(min) of the corners
RotatedSize(w, h) ==
    LET c == ROTATION_COS_MILLI
        s == ROTATION_SIN_MILLI
        xmax == 500 * w + (c * w + s * h) \div 2
        xmin == 500 * w - (c * w + s * h) \div 2
        ymax == 500 * h + (s * w + c * h) \div 2
        ymin == 500 * h - (s * w + c * h) \div 2
    IN  <<CeilDiv(xmax, 1000) - (xmin \div 1000),
          CeilDiv(ymax, 1000) - (ymin \div 1000)>>

(***************************************************************************)
(* Inputs of a request.                                                    *)
(***************************************************************************)
\* file.content_type: absent, or a type with its part before the slash
ContentTypes ==
    {[present |-> FALSE, major |-> ""],
     [present |-> TRUE, major |-> "text"],
     [present |-> TRUE, major |-> "image"]}

\* not file.content_type or not file.content_type.startswith("image/")
IsImageContentType(ct) == ct.present /\ ct.major = "image"

\* the form field of a request: absent, empty, blank, or a text
FormTexts == {None, Some(<<>>), Some(<<" ", "a">>)}

SizeList == <<<<60, 40>>, <<1, 1>>, <<1001, 1002>>, <<300, 1001>>>>
DecodedSizes == {SizeList[i] : i \in 1..Min(NumSizes, Len(SizeList))}

\* text boxes textbbox may measure: <<text_width, text_height>>
BoxList == <<<<5, 5>>, <<80, 20>>, <<300, 60>>, <<20, 80>>>>
TextBoxes == {BoxList[i] : i \in 1..Min(NumBoxes, Len(BoxList))}

\* what original_image._getexif() and exif.get(orientation) can do: raise
\* (AttributeError when the image class has no _getexif; SyntaxError or
\* struct.error from the TIFF parser on a corrupt block), return None,
\* return tags without the orientation tag, or return tags with it
LibraryExceptions ==
    {"AttributeError", "KeyError", "IndexError", "TypeError",
     "SyntaxError", "struct.error"}
ExifOutcomes ==
    {[kind |-> "raises", exc |-> e, value |-> 0] : e \in LibraryExceptions}
    \cup {[kind |-> "no_exif", exc |-> "", value |-> 0],
          [kind |-> "no_tag", exc |-> "", value |-> 0]}
    \cup {[kind |-> "tag", exc |-> "", value |-> v] : v \in 1..8}
NoExif == [kind |-> "unread", exc |-> "", value |-> 0]

\* except (AttributeError, KeyError, IndexError, TypeError): pass
CaughtExceptions == {"AttributeError", "KeyError", "IndexError", "TypeError"}

\* the angle add_watermark rotates by for an orientation value; 0: none
OrientationAngle(v) ==
    CASE v = 3 -> 180
      [] v = 6 -> 270
      [] v = 8 -> 90
      [] OTHER -> 0

\* responses of /process
NoResponse == [code |-> 0, kind |-> "none"]
ValidationError == [code |-> 400, kind |-> "not_an_image"]
ProcessingError == [code |-> 500, kind |-> "processing_error"]
Success == [code |-> 200, kind |-> "image/jpeg"]

NoSize == <<0, 0>>

(***************************************************************************)
(* The request, step by step.                                              *)
(***************************************************************************)
BlankGrid ==
    /\ rotated_width = 0 /\ rotated_height = 0
    /\ margin = 0 /\ spacing_x = 0 /\ spacing_y = 0
    /\ layer_size = NoSize
    /\ x = 0 /\ y = 0 /\ row = 0
    /\ rows = <<>>
    /\ placed = <<>>
    /\ out_size = NoSize

BlankMeasure ==
    /\ width = 0 /\ height = 0
    /\ font_size = 0
    /\ stroke_width = 0

BlankImage ==
    /\ decoded_size = NoSize
    /\ exif = NoExif
    /\ image_size = NoSize

Init ==
    /\ pc = "validate"
    /\ content_type = [present |-> FALSE, major |-> ""]
    /\ watermark = None
    /\ response = NoResponse
    /\ watermark_text = <<>>
    /\ BlankImage
    /\ BlankMeasure
    /\ BlankGrid

\* process_image: the content-type check, then the call of add_watermark
Validate ==
    /\ pc = "validate"
    /\ \E ct \in ContentTypes, t \in FormTexts :
        /\ content_type' = ct
        /\ watermark' = t
        /\ IF IsImageContentType(ct)
           THEN pc' = "text" /\ UNCHANGED response
           ELSE pc' = "done" /\ response' = ValidationError
    /\ UNCHANGED <<watermark_text, decoded_size, exif, image_size, width,
                   height, font_size, stroke_width, rotated_width,
                   rotated_height, margin, spacing_x, spacing_y, layer_size,
                   x, y, row, rows, placed, out_size>>

\* add_watermark: default text
SubstituteDefault ==
    /\ pc = "text"
    /\ watermark_text' = ResolveText(watermark)
    /\ pc' = "open"
    /\ UNCHANGED <<content_type, watermark, response, decoded_size, exif,
                   image_size, width, height, font_size, stroke_width,
                   rotated_width, rotated_height, margin, spacing_x,
                   spacing_y, layer_size, x, y, row, rows, placed, out_size>>

\* Image.open: raises on bytes that are no image, and the handler's
\* except Exception turns every exception into the 500 response
OpenImage ==
    /\ pc = "open"
    /\ \/ /\ pc' = "done"
          /\ response' = ProcessingError
          /\ UNCHANGED <<decoded_size, image_size>>
       \/ \E size \in DecodedSizes :
            /\ decoded_size' = size
            /\ image_size' = size
            /\ pc' = "exif"
            /\ UNCHANGED response
    /\ UNCHANGED <<content_type, watermark, watermark_text, exif, width,
                   height, font_size, stroke_width, rotated_width,
                   rotated_height, margin, spacing_x, spacing_y, layer_size,
                   x, y, row, rows, placed, out_size>>

\* the try block around the EXIF orientation
ExifOrientation ==
    /\ pc = "exif"
    /\ \E o \in ExifOutcomes :
        /\ exif' = o
        /\ IF o.kind = "raises"
           THEN IF o.exc \in CaughtExceptions
                THEN pc' = "measure" /\ UNCHANGED <<image_size, response>>
                ELSE /\ pc' = "done"
                     /\ response' = ProcessingError
                     /\ UNCHANGED image_size
           ELSE /\ pc' = "measure"
                /\ UNCHANGED response
                /\ IF o.kind = "tag" /\ OrientationAngle(o.value) # 0
                   THEN image_size' =
                            RotateSize(image_size, OrientationAngle(o.value))
                   ELSE UNCHANGED image_size
    /\ UNCHANGED <<content_type, watermark, watermark_text, decoded_size,
                   width, height, font_size, stroke_width, rotated_width,
                   rotated_height, margin, spacing_x, spacing_y, layer_size,
                   x, y, row, rows, placed, out_size>>

\* width, height = original_image.size; font size and stroke width
Measure ==
    /\ pc = "measure"
    /\ width' = image_size[1]
    /\ height' = image_size[2]
    /\ font_size' = get_font_size(image_size[1], image_size[2])
    /\ stroke_width' = StrokeWidth(get_font_size(image_size[1], image_size[2]))
    /\ pc' = "render"
    /\ UNCHANGED <<content_type, watermark, response, watermark_text,
                   decoded_size, exif, image_size, rotated_width,
                   rotated_height, margin, spacing_x, spacing_y, layer_size,
                   x, y, row, rows, placed, out_size>>

\* steps 1-3: measure the text, draw it on a padded canvas, rotate it
RenderTile ==
    /\ pc = "render"
    /\ \E box \in TextBoxes :
        LET padding == stroke_width + 2
            size == RotatedSize(box[1] + padding * 2, box[2] + padding * 2)
        IN  /\ rotated_width' = size[1]
            /\ rotated_height' = size[2]
    /\ pc' = "grid"
    /\ UNCHANGED <<content_type, watermark, response, watermark_text,
                   decoded_size, exif, image_size, width, height, font_size,
                   stroke_width, margin, spacing_x, spacing_y, layer_size,
                   x, y, row, rows, placed, out_size>>

(***************************************************************************)
(* Steps 4-5: the staggered grid.                                          *)
(***************************************************************************)
\* spacing_x = rotated_width + margin; spacing_y = rotated_height + margin
SpacingOverlapFactor(tile, m) == (tile * 3) \div 4
Spacing(tile, m) == tile + m

\* start_x = -rotated_width; start_y = -rotated_height
StartAtOrigin(tile) == 0
Start(tile) == -tile

\* offset = (row % 2) * (spacing_x // 2)
OffsetEveryRow(r, sx) == sx \div 2
OffsetCumulative(r, sx) == r * (sx \div 2)
Offset(r, sx) == (r % 2) * (sx \div 2)

\* margin, spacing, the transparent layer, and the loop variables
InitGrid ==
    /\ pc = "grid"
    /\ margin' = Margin(font_size)
    /\ spacing_x' = Spacing(rotated_width, Margin(font_size))
    /\ spacing_y' = Spacing(rotated_height, Margin(font_size))
    /\ layer_size' = <<width, height>>
    /\ y' = Start(rotated_height)
    /\ row' = 0
    /\ pc' = "outer"
    /\ UNCHANGED <<content_type, watermark, response, watermark_text,
                   decoded_size, exif, image_size, width, height, font_size,
                   stroke_width, rotated_width, rotated_height, x, rows,
                   placed, out_size>>

\* while y < height + rotated_height: enter the row, or leave the loop
BeginRow ==
    /\ pc = "outer"
    /\ IF y < height + rotated_height
       THEN /\ x' = Start(rotated_width) + Offset(row, spacing_x)
            /\ rows' = Append(rows, y)
            /\ pc' = "inner"
       ELSE /\ pc' = "compose"
            /\ UNCHANGED <<x, rows>>
    /\ UNCHANGED <<content_type, watermark, response, watermark_text,
                   decoded_size, exif, image_size, width, height, font_size,
                   stroke_width, rotated_width, rotated_height, margin,
                   spacing_x, spacing_y, layer_size, y, row, placed,
                   out_size>>

\* while x < width + rotated_width: paste the tile and step right
PlaceTileNoStep ==
    /\ pc = "inner"
    /\ x < width + rotated_width
    /\ placed' = Append(placed, [x |-> x, y |-> y, row |-> row])
    /\ UNCHANGED <<pc, content_type, watermark, response, watermark_text,
                   decoded_size, exif, image_size, width, height, font_size,
                   stroke_width, rotated_width, rotated_height, margin,
                   spacing_x, spacing_y, layer_size, x, y, row, rows,
                   out_size>>
PlaceTile ==
    /\ pc = "inner"
    /\ x < width + rotated_width
    /\ placed' = Append(placed, [x |-> x, y |-> y, row |-> row])
    /\ x' = x + spacing_x
    /\ UNCHANGED <<pc, content_type, watermark, response, watermark_text,
                   decoded_size, exif, image_size, width, height, font_size,
                   stroke_width, rotated_width, rotated_height, margin,
                   spacing_x, spacing_y, layer_size, y, row, rows, out_size>>

\* the inner loop is over: y += spacing_y; row += 1
EndRow ==
    /\ pc = "inner"
    /\ ~(x < width + rotated_width)
    /\ y' = y + spacing_y
    /\ row' = row + 1
    /\ pc' = "outer"
    /\ UNCHANGED <<content_type, watermark, response, watermark_text,
                   decoded_size, exif, image_size, width, height, font_size,
                   stroke_width, rotated_width, rotated_height, margin,
                   spacing_x, spacing_y, layer_size, x, rows, placed,
                   out_size>>

\* Image.alpha_composite raises ValueError unless both images have the same
\* size; the result is converted, encoded and streamed back
Compose ==
    /\ pc = "compose"
    /\ IF layer_size = image_size
       THEN out_size' = image_size /\ response' = Success
       ELSE response' = ProcessingError /\ UNCHANGED out_size
    /\ pc' = "done"
    /\ UNCHANGED <<content_type, watermark, watermark_text, decoded_size,
                   exif, image_size, width, height, font_size, stroke_width,
                   rotated_width, rotated_height, margin, spacing_x,
                   spacing_y, layer_size, x, y, row, rows, placed>>

Next ==
    \/ Validate
    \/ SubstituteDefault
    \/ OpenImage
    \/ ExifOrientation
    \/ Measure
    \/ RenderTile
    \/ InitGrid
    \/ BeginRow
    \/ PlaceTile
    \/ EndRow
    \/ Compose

Spec == Init /\ [][Next]_vars

\* the request is a synchronous call: a step that can run does run
FairSpec == Spec /\ WF_vars(Next)

(***************************************************************************)
(* add_watermark called with every text up to MaxTextLen characters.       *)
(***************************************************************************)
InitText ==
    /\ pc = "text"
    /\ content_type = [present |-> TRUE, major |-> "image"]
    /\ watermark \in {None} \cup {Some(s) : s \in Strings(MaxTextLen)}
    /\ response = NoResponse
    /\ watermark_text = <<>>
    /\ BlankImage
    /\ BlankMeasure
    /\ BlankGrid

NextText == SubstituteDefault

SpecText == InitText /\ [][NextText]_vars

(***************************************************************************)
(* get_font_size on the sizes around its boundaries, under two texts.      *)
(***************************************************************************)
BoundaryDims == {8, 192, 200, 1000, 2000}
FontDims ==
    {d \in UNION {(b - DimSpread)..(b + DimSpread) : b \in BoundaryDims} :
        d >= 1}

InitFont ==
    /\ pc = "measure"
    /\ content_type = [present |-> TRUE, major |-> "image"]
    /\ watermark \in {None, Some(<<"a", "b">>)}
    /\ watermark_text = ResolveText(watermark)
    /\ response = NoResponse
    /\ image_size \in FontDims \X FontDims
    /\ decoded_size = image_size
    /\ exif = [kind |-> "no_exif", exc |-> "", value |-> 0]
    /\ BlankMeasure
    /\ BlankGrid

NextFont == Measure

SpecFont == InitFont /\ [][NextFont]_vars

(***************************************************************************)
(* Properties.                                                             *)
(***************************************************************************)
Placements == DOMAIN placed
InTile(p, px, py) ==
    /\ p.x <= px /\ px < p.x + rotated_width
    /\ p.y <= py /\ py < p.y + rotated_height
FirstInRow(i) == \A j \in 1..(i - 1) : placed[j].row # placed[i].row
RowStarts == {i \in Placements : FirstInRow(i)}
GridBuilt == pc \in {"compose", "done"} /\ layer_size # NoSize
Decoded == decoded_size # NoSize

\* C1: get_font_size(width, height) is 72 when both width and height exceed
\* 1000 and max(24, floor(min(width, height) / 8)) otherwise, at the
\* boundaries too, whatever the watermark text is.
C1_FontSize ==
    pc = "render" =>
        font_size =
            IF width > 1000 /\ height > 1000
            THEN 72
            ELSE IF width <= height
                 THEN (IF width \div 8 >= 24 THEN width \div 8 ELSE 24)
                 ELSE (IF height \div 8 >= 24 THEN height \div 8 ELSE 24)

\* a 1000 x 1001 image is not large: its font size is 1000 / 8
C1_Witness ==
    /\ pc = "render"
    /\ width = 1000 /\ height = 1001
    /\ font_size = 125
    /\ watermark_text # DEFAULT_WATERMARK_TEXT

\* C6: an omitted text and an empty text both resolve to "Sample"; a text
\* with a character that is not whitespace is used unchanged.
C6_DefaultText ==
    pc = "open" =>
        /\ (~watermark.present \/ watermark.value = <<>>) =>
               watermark_text = <<"S", "a", "m", "p", "l", "e">>
        /\ (/\ watermark.present
            /\ \E i \in DOMAIN watermark.value :
                   watermark.value[i] \notin Whitespace) =>
               watermark_text = watermark.value

\* the empty string has been replaced by the default
C6_Witness ==
    /\ pc = "open"
    /\ watermark = Some(<<>>)
    /\ watermark_text = <<"S", "a", "m", "p", "l", "e">>

\* the size of the orientation-corrected input: transposed for 6 and 8
CorrectedSize ==
    IF exif.kind = "tag" /\ exif.value \in {6, 8}
    THEN <<decoded_size[2], decoded_size[1]>>
    ELSE decoded_size

\* C3: the encoded image has the width and height of the orientation-
\* corrected input (the decoded size, transposed when the orientation is 6
\* or 8), and the watermark layer has that size too.
C3_SizePreserved ==
    /\ layer_size # NoSize => layer_size = CorrectedSize
    /\ response = Success =>
           out_size = CorrectedSize /\ layer_size = out_size

\* a 60 x 40 image with orientation 6 is encoded as 40 x 60
C3_Witness ==
    /\ response = Success
    /\ exif.kind = "tag" /\ exif.value = 6
    /\ decoded_size = <<60, 40>>
    /\ out_size = <<40, 60>>

\* C4: bytes with an image content type that do not decode end in a client
\* error that is neither the validation failure nor the server error of
\* an unexpected processing failure, and no image is produced.
C4_DecodeFailureIsClientError ==
    (pc = "done" /\ IsImageContentType(content_type) /\ ~Decoded) =>
        /\ response.code \in 400..499
        /\ response # ValidationError
        /\ response # ProcessingError
        /\ out_size = NoSize

\* C5: whatever reading the orientation raises, the image is taken as
\* upright, is not rotated, and the request goes on to a watermarked image.
C5_ExifFailureIgnored ==
    exif.kind = "raises" =>
        /\ image_size = decoded_size
        /\ response # ProcessingError
        /\ pc = "done" => response = Success

\* C2 as claimed: once the grid is laid, every pixel of the image lies
\* inside the rectangle of at least one placed tile.
C2_EveryPixelInATile ==
    GridBuilt =>
        \A px \in 0..(width - 1), py \in 0..(height - 1) :
            \E i \in Placements : InTile(placed[i], px, py)

\* the x of the tiles pasted in row r
RowOrigins(r) == {placed[i].x : i \in {j \in Placements : placed[j].row = r}}

\* C2, amended: the grid cells (a tile with the margin to its right and
\* below it) span the image: in every even row each pixel column lies in
\* [x, x + spacing_x) of a tile pasted in that row, and each pixel row lies
\* in [y, y + spacing_y) of a row the loop entered.  The tile rectangles
\* themselves leave the margin strips uncovered.
C2_GridSpansImage ==
    GridBuilt =>
        /\ \A r \in {q \in 0..(row - 1) : q % 2 = 0} :
               \A px \in 0..(width - 1) :
                   \E ox \in RowOrigins(r) : ox <= px /\ px < ox + spacing_x
        /\ \A py \in 0..(height - 1) :
               \E j \in DOMAIN rows : rows[j] <= py /\ py < rows[j] + spacing_y

\* a tile larger than the image has been laid, the grid spans the image,
\* and pixel (0, 0) is in no tile
C2_Witness ==
    /\ pc = "done" /\ response = Success
    /\ rotated_width > width /\ rotated_height > height
    /\ Len(placed) > 1
    /\ \A i \in Placements : ~InTile(placed[i], 0, 0)

\* the part of C7 about where placement stops: a tile is pasted only at an
\* origin inside the bounds, a row ends with x >= width + tile width, and
\* the grid ends with y >= height + tile height
StopsPastBounds ==
    /\ \A i \in Placements :
           /\ placed[i].x < width + rotated_width
           /\ placed[i].y < height + rotated_height
    /\ (pc \in {"outer", "compose", "done"} /\ row > 0) =>
           x >= width + rotated_width
    /\ GridBuilt => y >= height + rotated_height

\* C7 as claimed: in every row, even or odd, the first tile has
\* x <= -tile width (and y <= -tile height in the first row), and placement
\* goes on until the next origin is past the bounds on the positive side.
C7_EveryRowStartsOutside ==
    /\ \A i \in Placements :
           FirstInRow(i) =>
               /\ placed[i].x <= -rotated_width
               /\ placed[i].row = 0 => placed[i].y <= -rotated_height
    /\ StopsPastBounds

\* C7, amended: in every even row the first tile has x <= -tile width, and
\* the first row has y <= -tile height; in every odd row the first tile is
\* floor(spacing_x / 2) further right, at x = -tile width +
\* floor(spacing_x / 2), which can be inside the image; placement goes on
\* until the next origin is past the bounds on the positive side.
C7_EvenRowsStartOutside ==
    /\ \A i \in Placements :
           FirstInRow(i) =>
               /\ placed[i].row % 2 = 0 => placed[i].x <= -rotated_width
               /\ placed[i].row % 2 = 1 =>
                      placed[i].x = -rotated_width + spacing_x \div 2
               /\ placed[i].row = 0 => placed[i].y <= -rotated_height
    /\ StopsPastBounds

\* the second row of a finished grid starts inside the image
C7_Witness ==
    /\ pc = "done" /\ response = Success
    /\ \E i \in Placements :
           /\ FirstInRow(i)
           /\ placed[i].row = 1
           /\ placed[i].x > 0 /\ placed[i].x < width

\* C8: a tile of row r is at x = -tile width + (r mod 2) *
\* floor(spacing_x / 2) + k * spacing_x for some k >= 0 and at
\* y = -tile height + r * spacing_y; rows one apart differ in offset by
\* half the spacing and rows two apart are aligned.
C8_Staggered ==
    /\ \A i \in Placements :
           /\ \E k \in 0..Len(placed) :
                  placed[i].x =
                      -rotated_width
                      + (placed[i].row % 2) * (spacing_x \div 2)
                      + k * spacing_x
           /\ placed[i].y = -rotated_height + placed[i].row * spacing_y
    /\ \A i, j \in RowStarts :
               /\ placed[j].row = placed[i].row + 2 => placed[j].x = placed[i].x
               /\ placed[j].row = placed[i].row + 1 =>
                      placed[j].x - placed[i].x
                          \in {spacing_x \div 2, -(spacing_x \div 2)}

\* a finished grid with tiles in three rows and two tiles in one row
C8_Witness ==
    /\ pc = "done" /\ response = Success
    /\ \E i, j \in Placements :
           /\ placed[i].row = 2 /\ placed[j].row = 1
           /\ placed[j].x > placed[i].x + spacing_x

\* the rectangles of two placements have no pixel in common
Disjoint(p, q) ==
    \/ p.x + rotated_width <= q.x
    \/ q.x + rotated_width <= p.x
    \/ p.y + rotated_height <= q.y
    \/ q.y + rotated_height <= p.y

\* C9: the rectangles of any two distinct placements are disjoint.
C9_NoOverlap ==
    \A i, j \in Placements : i < j => Disjoint(placed[i], placed[j])

\* a finished grid with two tiles in one row and tiles in an odd row,
\* with a tile wider than the margin
C9_Witness ==
    /\ pc = "done" /\ response = Success
    /\ rotated_width > margin
    /\ \E i, j \in Placements :
           i < j /\ placed[i].row = 1 /\ placed[j].row = 1

\* C10: every paste moves x right by a positive step, every row moves y
\* down by a positive step, and the request reaches its end.
C10_Terminates ==
    /\ [][(pc = "inner" /\ placed' # placed) => x' > x]_vars
    /\ [][(pc = "inner" /\ row' # row) => y' > y]_vars
    /\ <>(pc = "done")

\* a request whose grid took several rows of several tiles has ended
C10_Witness ==
    /\ pc = "done" /\ response = Success
    /\ row > 2 /\ Len(placed) > 6

====
